---- MODULE Spec2Model ----
(***************************************************************************)
(* Model of the Crypto Pay webhook server (src/main.py, src/config.py).    *)
(*                                                                         *)
(* Strings whose contents the code inspects (status, custom_payload,       *)
(* amount, asset) are sequences of one-character strings.  A raw request   *)
(* body is described by what raw_body.decode(), json.loads and the         *)
(* pydantic models observe of it.  The handler is an asyncio coroutine:    *)
(* after `await request.body()` it runs on the event loop thread without   *)
(* another suspension point, so `loop` names the request that holds the    *)
(* thread.                                                                 *)
(***************************************************************************)
EXTENDS Integers, Sequences, FiniteSets, TLC

\* Number of webhook requests the provider has in flight in the concurrent
\* specification.
NumReqs == 2

Reqs == 1..NumReqs

\* The sequential specification follows a single request.
SingleReq == {1}

(***************************************************************************)
(* Character strings                                                       *)
(***************************************************************************)
S_marker  == <<"u", "s", "e", "r", "_", "i", "d", ":">>
S_paid    == <<"p", "a", "i", "d">>
S_PAID    == <<"P", "A", "I", "D">>
S_Paid    == <<"P", "a", "i", "d">>
S_expired == <<"e", "x", "p", "i", "r", "e", "d">>
S_EXPIRED == <<"E", "X", "P", "I", "R", "E", "D">>
S_active  == <<"a", "c", "t", "i", "v", "e">>
S_amount  == <<"1", "0", ".", "5">>
S_asset   == <<"T", "O", "N">>
S_date    == <<"2", "0", "2", "4">>
S_type    == <<"i", "p">>

Digits == {"0", "1", "2", "3", "4", "5", "6", "7", "8", "9"}

DigitVal(c) ==
    CASE c = "0" -> 0 [] c = "1" -> 1 [] c = "2" -> 2 [] c = "3" -> 3
      [] c = "4" -> 4 [] c = "5" -> 5 [] c = "6" -> 6 [] c = "7" -> 7
      [] c = "8" -> 8 [] c = "9" -> 9

\* str.upper() on the characters that occur in the modelled statuses.
UpperChar(c) ==
    CASE c = "a" -> "A" [] c = "c" -> "C" [] c = "d" -> "D" [] c = "e" -> "E"
      [] c = "i" -> "I" [] c = "p" -> "P" [] c = "r" -> "R" [] c = "t" -> "T"
      [] c = "v" -> "V" [] c = "x" -> "X"
      [] OTHER -> c

Upper(s) == [i \in 1..Len(s) |-> UpperChar(s[i])]

\* Does m occur in s starting at index i?
OccursAt(s, m, i) ==
    /\ i >= 1
    /\ i + Len(m) - 1 <= Len(s)
    /\ \A j \in 1..Len(m) : s[i + j - 1] = m[j]

\* Python `m in s`.
Contains(s, m) == \E i \in 1..(Len(s) + 1) : OccursAt(s, m, i)

\* Index of the first occurrence of m in s (only used when Contains(s, m)).
FirstIndex(s, m) ==
    CHOOSE i \in 1..(Len(s) + 1) :
        /\ OccursAt(s, m, i)
        /\ \A k \in 1..(i - 1) : ~OccursAt(s, m, k)

\* Python `s.split(m)[-1]`: split scans left to right for non-overlapping
\* occurrences; the last piece is what follows the last one found.
RECURSIVE SplitLast(_, _)
SplitLast(s, m) ==
    IF Contains(s, m)
    THEN SplitLast(SubSeq(s, FirstIndex(s, m) + Len(m), Len(s)), m)
    ELSE s

\* str.strip() of ASCII blanks, as int() applies it to its argument.
RECURSIVE StripLeft(_)
StripLeft(s) ==
    IF s # <<>> /\ Head(s) = " " THEN StripLeft(Tail(s)) ELSE s

RECURSIVE StripRight(_)
StripRight(s) ==
    IF s # <<>> /\ s[Len(s)] = " " THEN StripRight(SubSeq(s, 1, Len(s) - 1)) ELSE s

Strip(s) == StripRight(StripLeft(s))

\* Digits with single underscores between them (Python integer literal body).
IsDigitBody(s) ==
    /\ s # <<>>
    /\ \A i \in 1..Len(s) : s[i] \in Digits \/ s[i] = "_"
    /\ s[1] \in Digits
    /\ s[Len(s)] \in Digits
    /\ \A i \in 1..(Len(s) - 1) : ~(s[i] = "_" /\ s[i + 1] = "_")

RECURSIVE DigitsValue(_, _)
DigitsValue(s, acc) ==
    IF s = <<>> THEN acc
    ELSE IF Head(s) = "_" THEN DigitsValue(Tail(s), acc)
    ELSE DigitsValue(Tail(s), acc * 10 + DigitVal(Head(s)))

\* Python int(s) for a str argument: [ok |-> FALSE] stands for ValueError.
PyInt(s) ==
    LET t    == Strip(s)
        neg  == t # <<>> /\ Head(t) = "-"
        sign == t # <<>> /\ Head(t) \in {"-", "+"}
        body == IF sign THEN Tail(t) ELSE t
    IN  IF IsDigitBody(body)
        THEN [ok |-> TRUE,
              v  |-> IF neg THEN 0 - DigitsValue(body, 0) ELSE DigitsValue(body, 0)]
        ELSE [ok |-> FALSE, v |-> 0]

(***************************************************************************)
(* JSON values and request bodies                                          *)
(***************************************************************************)
\* A JSON value as json.loads delivers it; "absent" is a key that is not in
\* its object.  n is the number of an "int", s the characters of a "str".
JAbsent == [t |-> "absent", n |-> 0, s |-> <<>>]
JNull   == [t |-> "null", n |-> 0, s |-> <<>>]
JInt(k) == [t |-> "int", n |-> k, s |-> <<>>]
JStr(x) == [t |-> "str", n |-> 0, s |-> x]
JObj    == [t |-> "obj", n |-> 0, s |-> <<>>]
JArr    == [t |-> "arr", n |-> 0, s |-> <<>>]

\* Python truthiness of an Optional[str] attribute.
Truthy(v) == v.t = "str" /\ v.s # <<>>

\* A well-formed webhook body: enc says whether the bytes decode as UTF-8,
\* syntax whether the text is JSON, top the kind of the top-level value; the
\* other fields are the values under the keys of the envelope and of the
\* object under its key "payload" (inv_payload is the invoice's key "payload",
\* inv_custom_payload its key "custom_payload").
BaseBody ==
    [enc |-> "utf8", syntax |-> "json", top |-> "obj",
     update_id |-> JInt(1), update_type |-> JStr(S_type),
     request_date |-> JStr(S_date), payload |-> JObj,
     invoice_id |-> JInt(7), status |-> JStr(S_paid),
     amount |-> JAbsent, asset |-> JAbsent, fee |-> JAbsent,
     fiat_amount |-> JAbsent, fiat_currency |-> JAbsent,
     description |-> JAbsent,
     inv_payload |-> JStr(S_marker \o <<"4", "2">>),
     inv_custom_payload |-> JAbsent]

BadUtf8Bodies == {[BaseBody EXCEPT !.enc = "bad"]}

BadJsonBodies == {[BaseBody EXCEPT !.syntax = "bad"]}

NonObjectBodies == {[BaseBody EXCEPT !.top = k] : k \in {"arr", "str", "int", "null"}}

\* Objects that differ from the declared shape in one place.
ShapeBodies ==
    {[BaseBody EXCEPT !.invoice_id = JAbsent],
     [BaseBody EXCEPT !.invoice_id = JNull],
     [BaseBody EXCEPT !.invoice_id = JStr(<<"x", "7">>)],
     [BaseBody EXCEPT !.invoice_id = JStr(<<"7">>)],
     [BaseBody EXCEPT !.status = JAbsent],
     [BaseBody EXCEPT !.status = JInt(5)],
     [BaseBody EXCEPT !.update_id = JAbsent],
     [BaseBody EXCEPT !.update_id = JStr(<<"1", "2">>)],
     [BaseBody EXCEPT !.update_type = JInt(3)],
     [BaseBody EXCEPT !.request_date = JAbsent],
     [BaseBody EXCEPT !.payload = JAbsent],
     [BaseBody EXCEPT !.payload = JStr(S_paid)],
     [BaseBody EXCEPT !.payload = JArr],
     [BaseBody EXCEPT !.amount = JInt(10)],
     [BaseBody EXCEPT !.description = JInt(1)],
     [BaseBody EXCEPT !.fee = JNull, !.description = JStr(S_type)],
     [BaseBody EXCEPT !.inv_payload = JInt(42)],
     [BaseBody EXCEPT !.inv_payload = JAbsent,
                      !.inv_custom_payload = JStr(S_marker \o <<"4", "2">>)]}

Statuses == {S_paid, S_PAID, S_Paid, S_expired, S_EXPIRED, S_active, <<>>}

Amounts == {JAbsent, JNull, JStr(<<>>), JStr(S_amount)}

Assets == {JAbsent, JStr(<<>>), JStr(S_asset)}

StatusBodies ==
    {[BaseBody EXCEPT !.status = JStr(st), !.amount = am, !.asset = a] :
        st \in Statuses, am \in Amounts, a \in Assets}

\* Values of the invoice's "payload" key (the custom payload).
CustomPayloads ==
    {JAbsent, JNull, JStr(<<>>),
     JStr(<<"n", "o", " ", "m", "a", "r", "k", "e", "r">>),
     JStr(<<"U", "S", "E", "R", "_", "I", "D", ":", "4", "2">>),
     JStr(S_marker),
     JStr(S_marker \o <<"4", "2">>),
     JStr(<<"f", ","  >> \o S_marker \o <<"4", "2">>),
     JStr(S_marker \o <<"1">> \o S_marker \o <<"7">>),
     JStr(S_marker \o <<"4", "x">>),
     JStr(S_marker \o <<"4", ".", "2">>),
     JStr(S_marker \o <<"4", "_">>),
     JStr(S_marker \o <<"1", "_", "0">>),
     JStr(S_marker \o <<" ", "4", "2", " ">>),
     JStr(S_marker \o <<"+", "3">>),
     JStr(S_marker \o <<"-", "5">>),
     JStr(S_marker \o <<"0">>),
     JStr(S_marker \o <<"0", "0">>)}

PayloadBodies ==
    {[BaseBody EXCEPT !.inv_payload = p, !.status = JStr(st)] :
        p \in CustomPayloads, st \in {S_paid, S_expired, S_active}}

Bodies ==
    BadUtf8Bodies \cup BadJsonBodies \cup NonObjectBodies \cup ShapeBodies
        \cup StatusBodies \cup PayloadBodies

(***************************************************************************)
(* Payload parser: json.loads and the pydantic models                      *)
(***************************************************************************)
\* pydantic `int` field (lax mode): an integer is taken as is and a string of
\* decimal digits is converted; a missing key, null and text with a letter in
\* it are validation errors (the strings of the modelled bodies are of these
\* two kinds).
IntField(v) ==
    IF v.t = "int" THEN [ok |-> TRUE, n |-> v.n]
    ELSE IF v.t = "str" /\ v.s # <<>> /\ \A i \in 1..Len(v.s) : v.s[i] \in Digits
         THEN [ok |-> TRUE, n |-> DigitsValue(v.s, 0)]
         ELSE [ok |-> FALSE, n |-> 0]

\* pydantic `str` field: only a string validates.
StrField(v) == v.t = "str"

\* pydantic `Optional[str] = None` field: a missing key or null gives None.
OptStrField(v) == v.t \in {"absent", "null", "str"}

OptStrValue(v) == IF v.t = "str" THEN v ELSE JNull

\* InvoicePayload(**obj): custom_payload is read from the key "payload"; the
\* key "custom_payload" is an unknown key and is ignored.
InvoicePayload(b) ==
    LET id == IntField(b.invoice_id)
        ok == /\ id.ok
              /\ StrField(b.status)
              /\ OptStrField(b.amount)
              /\ OptStrField(b.asset)
              /\ OptStrField(b.fee)
              /\ OptStrField(b.fiat_amount)
              /\ OptStrField(b.fiat_currency)
              /\ OptStrField(b.description)
              /\ OptStrField(b.inv_payload)
    IN  [ok |-> ok,
         invoice_id |-> id.n,
         status |-> IF b.status.t = "str" THEN b.status.s ELSE <<>>,
         amount |-> OptStrValue(b.amount),
         asset |-> OptStrValue(b.asset),
         custom_payload |-> OptStrValue(b.inv_payload)]

NoData ==
    [ok |-> FALSE, invoice_id |-> 0, status |-> <<>>, amount |-> JNull,
     asset |-> JNull, custom_payload |-> JNull]

\* CryptoPayWebhook(**webhook_data_dict).
CryptoPayWebhook(b) ==
    LET inv == InvoicePayload(b)
        ok  == /\ IntField(b.update_id).ok
               /\ StrField(b.update_type)
               /\ StrField(b.request_date)
               /\ b.payload.t = "obj"
               /\ inv.ok
    IN  IF ok THEN inv ELSE NoData

\* Lines 115-124: "json" is json.JSONDecodeError, "type" the TypeError of
\* `**` applied to a value that is not a mapping, "validation" pydantic's
\* ValidationError, "" no error.
ParseError(b) ==
    IF b.syntax # "json" THEN "json"
    ELSE IF b.top # "obj" THEN "type"
    ELSE IF ~CryptoPayWebhook(b).ok THEN "validation"
    ELSE ""

(***************************************************************************)
(* Configuration and signature verifier                                    *)
(***************************************************************************)
\* The module attribute config.CRYPTO_PAY_WEBHOOK_SECRET that verify_signature
\* reads.  config.py defines TELEGRAM_BOT_TOKEN and CRYPTO_PAY_API_TOKEN only,
\* so as shipped the attribute is "missing"; "none" and "str" are what a
\* deployment that adds it with os.getenv, as main.py:111-112 asks, gives.
SecretMissing == [attr |-> "missing", s |-> ""]
SecretNone    == [attr |-> "none", s |-> ""]
SecretStr(x)  == [attr |-> "str", s |-> x]

Secrets == {SecretMissing, SecretNone, SecretStr(""), SecretStr("k1")}

\* hmac.new(key, msg, sha256).hexdigest(): the digest is determined by the key
\* and the exact bytes, and distinct pairs give distinct digests.
HmacSha256Hex(key, msg) == [key |-> key, msg |-> msg]

\* The Crypto-Pay-Signature header: "none" when the header is not sent, "hex"
\* an ASCII string that is the hex digest d, "nonascii" a header value with a
\* character outside ASCII.
HeaderNone     == [k |-> "none", d |-> HmacSha256Hex("", BaseBody)]
HeaderEmpty    == [k |-> "empty", d |-> HmacSha256Hex("", BaseBody)]
HeaderNonAscii == [k |-> "nonascii", d |-> HmacSha256Hex("", BaseBody)]
HeaderHex(d)   == [k |-> "hex", d |-> d]

HeaderTruthy(h) == h.k \in {"hex", "nonascii"}

SecretTruthy(c) == c.attr = "str" /\ c.s # ""

\* The outcomes of a call: the value returned, or the exception that leaves it.
VerifyReturns(b) == [kind |-> "return", value |-> b]
VerifyRaises     == [kind |-> "raise", value |-> FALSE]

\* verify_signature (lines 68-95).  Reading an attribute the config module
\* does not have raises AttributeError at line 75, before the try block.
\* hmac.compare_digest raises TypeError for a str with non-ASCII characters;
\* that is inside the try block and gives False.
verify_signature(secret, request_body, signature_header) ==
    IF secret.attr = "missing" THEN VerifyRaises
    ELSE IF ~SecretTruthy(secret) \/ ~HeaderTruthy(signature_header)
         THEN VerifyReturns(TRUE)
         ELSE IF signature_header.k = "nonascii" THEN VerifyReturns(FALSE)
         ELSE IF HmacSha256Hex(secret.s, request_body) = signature_header.d
              THEN VerifyReturns(TRUE)
              ELSE VerifyReturns(FALSE)

(***************************************************************************)
(* Notification text                                                       *)
(***************************************************************************)
\* A text is the sequence of the pieces of its f-string: literals (the
\* Russian wording and its emoji written in ASCII), and the interpolated
\* invoice_id, amount, asset and upper-cased status.
Lit(x)      == [k |-> "lit", lit |-> x, s |-> <<>>, n |-> 0]
FragId(n)   == [k |-> "invoice_id", lit |-> "", s |-> <<>>, n |-> n]
FragAmount(x) == [k |-> "amount", lit |-> "", s |-> x, n |-> 0]
FragAsset(x)  == [k |-> "asset", lit |-> "", s |-> x, n |-> 0]
FragStatus(x) == [k |-> "status", lit |-> "", s |-> x, n |-> 0]

GenericText(invoice_id, status) ==
    <<Lit("Status of your payment (Invoice ID: "), FragId(invoice_id),
      Lit(") updated: <b>"), FragStatus(Upper(status)), Lit("</b>.")>>

PaidText(invoice_id) ==
    <<Lit("OK Your payment (Invoice ID: "), FragId(invoice_id),
      Lit(") successfully received!")>>

PaidAmountText(invoice_id, amount, asset) ==
    <<Lit("OK Your payment of "), FragAmount(amount), Lit(" "), FragAsset(asset),
      Lit(" (Invoice ID: "), FragId(invoice_id), Lit(") successfully received!")>>

ExpiredText(invoice_id) ==
    <<Lit("EXPIRED Your payment (Invoice ID: "), FragId(invoice_id),
      Lit(") has expired.")>>

NotificationTextNormalized(d) ==
    IF Upper(d.status) = Upper(S_paid)
    THEN IF Truthy(d.amount)
         THEN PaidAmountText(d.invoice_id, d.amount.s, d.asset.s)
         ELSE PaidText(d.invoice_id)
    ELSE IF Upper(d.status) = Upper(S_expired) THEN ExpiredText(d.invoice_id)
    ELSE GenericText(d.invoice_id, d.status)

\* Lines 153-162.
NotificationText(d) ==
    IF d.status = S_paid
    THEN IF Truthy(d.amount) /\ Truthy(d.asset)
         THEN PaidAmountText(d.invoice_id, d.amount.s, d.asset.s)
         ELSE PaidText(d.invoice_id)
    ELSE IF d.status = S_expired THEN ExpiredText(d.invoice_id)
    ELSE GenericText(d.invoice_id, d.status)

(***************************************************************************)
(* Identifier extractor                                                    *)
(***************************************************************************)
\* chat_id: Optional[int]; some = FALSE is None.
NoChat == [some |-> FALSE, v |-> 0]
Chat(n) == [some |-> TRUE, v |-> n]

\* Lines 133-141: int() failing is caught and leaves chat_id None.
ExtractChatId(custom_payload) ==
    IF ~Truthy(custom_payload) THEN NoChat
    ELSE IF ~Contains(custom_payload.s, S_marker) THEN NoChat
    ELSE LET r == PyInt(SplitLast(custom_payload.s, S_marker))
         IN  IF r.ok THEN Chat(r.v) ELSE NoChat

\* Line 143, `not chat_id`: None and the integer 0 are both falsy.
NotChatId(c) == ~c.some \/ c.v = 0

(***************************************************************************)
(* State                                                                   *)
(***************************************************************************)
VARIABLES
    webhookSecret,      \* config.CRYPTO_PAY_WEBHOOK_SECRET
    loop,               \* request whose handler holds the event loop thread, 0 if none
    pc,                 \* per request: position of its handler
    input,              \* per request: raw body and Crypto-Pay-Signature header
    webhook_data,       \* per request: the validated invoice payload
    chat_id,            \* per request: the extracted chat_id
    notification_text,  \* per request: the text built for the user
    posted,             \* per request: JSON of the sendMessage call
    attempts,           \* per request: number of requests.post calls made
    outcome,            \* per request: how the sendMessage call ended
    sent,               \* per request: what send_telegram_message returned
    response,           \* per request: the HTTP response of the webhook
    verifyCall          \* a call of verify_signature and its result

vars == <<webhookSecret, loop, pc, input, webhook_data, chat_id,
          notification_text, posted, attempts, outcome, sent, response,
          verifyCall>>

handlerVars == <<webhookSecret, loop, pc, input, webhook_data, chat_id,
                 notification_text, posted, attempts, outcome, sent, response>>

\* The signature headers a request for body b may carry: none, the digest
\* under the key "k1", and a digest that is not the one of b under "k1".
HeadersFor(b) ==
    {HeaderNone, HeaderHex(HmacSha256Hex("k1", b)), HeaderHex(HmacSha256Hex("zz", b))}

Inputs == UNION {{[body |-> b, sig |-> h] : h \in HeadersFor(b)} : b \in Bodies}

\* The requests of the concurrent specification: one body per path of the
\* handler.
ConcBodies ==
    BadUtf8Bodies \cup BadJsonBodies
        \cup {BaseBody, [BaseBody EXCEPT !.invoice_id = JAbsent],
              [BaseBody EXCEPT !.inv_payload = JAbsent]}

ConcInputs == {[body |-> b, sig |-> HeaderNone] : b \in ConcBodies}

NoInput == [body |-> BaseBody, sig |-> HeaderNone]

NoPost == [chat_id |-> 0, text |-> <<>>, parse_mode |-> ""]

NoResponse == [code |-> 0, status |-> "", message |-> "", detail |-> "", error |-> ""]

\* The responses of the endpoint.
Ok200 ==
    [code |-> 200, status |-> "ok", message |-> "Webhook processed",
     detail |-> "", error |-> ""]

SoftError200 ==
    [code |-> 200, status |-> "error",
     message |-> "chat_id not found in payload, notification skipped",
     detail |-> "", error |-> ""]

BadJson400 ==
    [code |-> 400, status |-> "", message |-> "",
     detail |-> "Invalid JSON payload", error |-> ""]

BadStructure400(e) ==
    [code |-> 400, status |-> "", message |-> "",
     detail |-> "Invalid payload structure: ", error |-> e]

Forbidden403 ==
    [code |-> 403, status |-> "", message |-> "",
     detail |-> "Invalid signature", error |-> ""]

\* What the server answers when an exception leaves the handler.
Unhandled500 ==
    [code |-> 500, status |-> "", message |-> "",
     detail |-> "Internal Server Error", error |-> ""]

NoCall == [phase |-> "none", body |-> BaseBody, header |-> HeaderNone, result |-> FALSE]

\* How a sendMessage call can end: a final reply of the given class, a
\* timeout after 5 seconds, or a connection failure.
Outcomes == {"2xx", "3xx", "4xx", "5xx", "timeout", "connection_error"}

HandlerInit ==
    /\ webhookSecret \in Secrets
    /\ loop = 0
    /\ pc = [r \in Reqs |-> "idle"]
    /\ input = [r \in Reqs |-> NoInput]
    /\ webhook_data = [r \in Reqs |-> NoData]
    /\ chat_id = [r \in Reqs |-> NoChat]
    /\ notification_text = [r \in Reqs |-> <<>>]
    /\ posted = [r \in Reqs |-> NoPost]
    /\ attempts = [r \in Reqs |-> 0]
    /\ outcome = [r \in Reqs |-> "none"]
    /\ sent = [r \in Reqs |-> "unset"]
    /\ response = [r \in Reqs |-> NoResponse]

Init ==
    /\ HandlerInit
    /\ verifyCall = NoCall

(***************************************************************************)
(* The handler, crypto_pay_webhook_handler                                 *)
(***************************************************************************)
\* The provider sends a request; it waits for the event loop.
ArriveFrom(r, pool) ==
    /\ pc[r] = "idle"
    /\ \E i \in pool : input' = [input EXCEPT ![r] = i]
    /\ pc' = [pc EXCEPT ![r] = "arrived"]
    /\ UNCHANGED <<webhookSecret, loop, webhook_data, chat_id, notification_text,
                   posted, attempts, outcome, sent, response, verifyCall>>

Arrive(r) == ArriveFrom(r, Inputs)

ArriveConc(r) == ArriveFrom(r, ConcInputs)

\* A handler can run when the event loop thread is free or is its own.
CanRun(r) == loop \in {0, r}

\* Lines 99-104: the event loop starts the coroutine and the body is read.
Receive(r) ==
    /\ pc[r] = "arrived"
    /\ loop = 0
    /\ loop' = r
    /\ pc' = [pc EXCEPT ![r] = "log"]
    /\ UNCHANGED <<webhookSecret, input, webhook_data, chat_id, notification_text,
                   posted, attempts, outcome, sent, response, verifyCall>>

\* The handler of r ends with response resp and gives the thread back.
Finish(r, resp) ==
    /\ response' = [response EXCEPT ![r] = resp]
    /\ pc' = [pc EXCEPT ![r] = "done"]
    /\ loop' = 0

\* Line 105: raw_body.decode() in the log call is outside every try block;
\* UnicodeDecodeError leaves the handler.  Lines 107-113: the signature check
\* is commented out, verify_signature is not called.
LogBody(r) ==
    /\ pc[r] = "log"
    /\ loop = r
    /\ IF input[r].body.enc # "utf8"
       THEN Finish(r, Unhandled500)
       ELSE /\ pc' = [pc EXCEPT ![r] = "parse"]
            /\ UNCHANGED <<loop, response>>
    /\ UNCHANGED <<webhookSecret, input, webhook_data, chat_id, notification_text,
                   posted, attempts, outcome, sent, verifyCall>>

ParseCatchValidationOnly(r) ==
    /\ pc[r] = "parse"
    /\ loop = r
    /\ LET b == input[r].body
           e == ParseError(b)
       IN  IF e = "json"
           THEN /\ Finish(r, BadJson400)
                /\ UNCHANGED webhook_data
           ELSE IF e = "type"
           THEN /\ Finish(r, Unhandled500)
                /\ UNCHANGED webhook_data
           ELSE IF e # ""
           THEN /\ Finish(r, BadStructure400(e))
                /\ UNCHANGED webhook_data
           ELSE /\ webhook_data' = [webhook_data EXCEPT ![r] = CryptoPayWebhook(b)]
                /\ pc' = [pc EXCEPT ![r] = "extract"]
                /\ UNCHANGED <<loop, response>>
    /\ UNCHANGED <<webhookSecret, input, chat_id, notification_text,
                   posted, attempts, outcome, sent, verifyCall>>

\* Lines 115-124: JSONDecodeError gives 400 "Invalid JSON payload", any other
\* exception (TypeError, ValidationError) 400 "Invalid payload structure: ...".
Parse(r) ==
    /\ pc[r] = "parse"
    /\ loop = r
    /\ LET b == input[r].body
           e == ParseError(b)
       IN  IF e = "json"
           THEN /\ Finish(r, BadJson400)
                /\ UNCHANGED webhook_data
           ELSE IF e # ""
           THEN /\ Finish(r, BadStructure400(e))
                /\ UNCHANGED webhook_data
           ELSE /\ webhook_data' = [webhook_data EXCEPT ![r] = CryptoPayWebhook(b)]
                /\ pc' = [pc EXCEPT ![r] = "extract"]
                /\ UNCHANGED <<loop, response>>
    /\ UNCHANGED <<webhookSecret, input, chat_id, notification_text,
                   posted, attempts, outcome, sent, verifyCall>>

\* Lines 126-141.
Extract(r) ==
    /\ pc[r] = "extract"
    /\ loop = r
    /\ chat_id' = [chat_id EXCEPT ![r] = ExtractChatId(webhook_data[r].custom_payload)]
    /\ pc' = [pc EXCEPT ![r] = "check"]
    /\ UNCHANGED <<webhookSecret, loop, input, webhook_data, notification_text,
                   posted, attempts, outcome, sent, response, verifyCall>>

CheckRecipientNotifyAnyway(r) ==
    /\ pc[r] = "check"
    /\ loop = r
    /\ pc' = [pc EXCEPT ![r] = "format"]
    /\ UNCHANGED <<loop, response>>
    /\ UNCHANGED <<webhookSecret, input, webhook_data, chat_id, notification_text,
                   posted, attempts, outcome, sent, verifyCall>>

\* Lines 143-151.
CheckRecipient(r) ==
    /\ pc[r] = "check"
    /\ loop = r
    /\ IF NotChatId(chat_id[r])
       THEN Finish(r, SoftError200)
       ELSE /\ pc' = [pc EXCEPT ![r] = "format"]
            /\ UNCHANGED <<loop, response>>
    /\ UNCHANGED <<webhookSecret, input, webhook_data, chat_id, notification_text,
                   posted, attempts, outcome, sent, verifyCall>>

\* Lines 153-162.
Format(r) ==
    /\ pc[r] = "format"
    /\ loop = r
    /\ notification_text' =
           [notification_text EXCEPT ![r] = NotificationText(webhook_data[r])]
    /\ pc' = [pc EXCEPT ![r] = "send"]
    /\ UNCHANGED <<webhookSecret, loop, input, webhook_data, chat_id,
                   posted, attempts, outcome, sent, response, verifyCall>>

\* Lines 164, 50-59: send_telegram_message calls requests.post, which blocks
\* the thread until the reply, the timeout or the failure.
SendStart(r) ==
    /\ pc[r] = "send"
    /\ loop = r
    /\ posted' = [posted EXCEPT ![r] =
                     [chat_id |-> chat_id[r].v, text |-> notification_text[r],
                      parse_mode |-> "HTML"]]
    /\ attempts' = [attempts EXCEPT ![r] = @ + 1]
    /\ pc' = [pc EXCEPT ![r] = "posting"]
    /\ UNCHANGED <<webhookSecret, loop, input, webhook_data, chat_id,
                   notification_text, outcome, sent, response, verifyCall>>

\* raise_for_status raises HTTPError for a 4xx or 5xx reply.
RaisesRequestException(o) == o \in {"4xx", "5xx", "timeout", "connection_error"}

SendEndRetry(r) ==
    /\ pc[r] = "posting"
    /\ loop = r
    /\ \E o \in Outcomes :
        /\ outcome' = [outcome EXCEPT ![r] = o]
        /\ sent' = [sent EXCEPT ![r] =
                       IF RaisesRequestException(o) THEN "False" ELSE "True"]
        /\ pc' = [pc EXCEPT ![r] =
                     IF RaisesRequestException(o) /\ attempts[r] < 2
                     THEN "send" ELSE "respond"]
    /\ UNCHANGED <<webhookSecret, loop, input, webhook_data, chat_id,
                   notification_text, posted, attempts, response, verifyCall>>

\* Lines 59-66: the call ends; RequestException is caught and gives False.
SendEnd(r) ==
    /\ pc[r] = "posting"
    /\ loop = r
    /\ \E o \in Outcomes :
        /\ outcome' = [outcome EXCEPT ![r] = o]
        /\ sent' = [sent EXCEPT ![r] =
                       IF RaisesRequestException(o) THEN "False" ELSE "True"]
    /\ pc' = [pc EXCEPT ![r] = "respond"]
    /\ UNCHANGED <<webhookSecret, loop, input, webhook_data, chat_id,
                   notification_text, posted, attempts, response, verifyCall>>

\* Line 167: the value of send_telegram_message is not looked at.
Respond(r) ==
    /\ pc[r] = "respond"
    /\ loop = r
    /\ Finish(r, Ok200)
    /\ UNCHANGED <<webhookSecret, input, webhook_data, chat_id, notification_text,
                   posted, attempts, outcome, sent, verifyCall>>

Handler(r) ==
    \/ Receive(r)
    \/ LogBody(r)
    \/ Parse(r)
    \/ Extract(r)
    \/ CheckRecipient(r)
    \/ Format(r)
    \/ SendStart(r)
    \/ SendEnd(r)
    \/ Respond(r)

Next == \E r \in SingleReq : Arrive(r) \/ Handler(r)

Spec == Init /\ [][Next]_vars

\* Several requests in flight in one process.
NextConc == \E r \in Reqs : ArriveConc(r) \/ Handler(r)

SpecConc == Init /\ [][NextConc]_vars

(***************************************************************************)
(* verify_signature on its own                                             *)
(***************************************************************************)
VerifyBodies == {BaseBody, [BaseBody EXCEPT !.invoice_id = JInt(8)]} \cup BadUtf8Bodies

VerifyHeaders ==
    {HeaderNone, HeaderEmpty, HeaderNonAscii}
        \cup {HeaderHex(HmacSha256Hex(k, b)) : k \in {"k1", "zz"}, b \in VerifyBodies}

InitVerify ==
    /\ HandlerInit
    /\ verifyCall \in {[phase |-> "called", body |-> b, header |-> h, result |-> FALSE] :
                          b \in VerifyBodies, h \in VerifyHeaders}

\* A call verify_signature(body, header) runs to its end.
VerifySignature ==
    /\ verifyCall.phase = "called"
    /\ LET res == verify_signature(webhookSecret, verifyCall.body, verifyCall.header)
       IN  verifyCall' =
               [verifyCall EXCEPT !.phase = IF res.kind = "raise" THEN "raised" ELSE "returned",
                                  !.result = res.value]
    /\ UNCHANGED handlerVars

NextVerify == VerifySignature

SpecVerify == InitVerify /\ [][NextVerify]_vars

(***************************************************************************)
(* Properties                                                              *)
(***************************************************************************)
Done(r) == pc[r] = "done"

\* The body of r is JSON text.
ValidJson(r) == input[r].body.enc = "utf8" /\ input[r].body.syntax = "json"

\* The Notifier was not invoked for r.
NotNotified(r) == attempts[r] = 0 /\ posted[r] = NoPost /\ outcome[r] = "none"

\* C1: a request whose signature verification fails (secret configured,
\* header present, header differs from the HMAC-SHA256 hex digest of the raw
\* body) ends in 403 "Invalid signature", unparsed and without notification.
\* Stated for the bodies that pass the log call of line 105, which runs
\* before the place of the signature check.
C1_BadSignatureGives403 ==
    \A r \in Reqs :
        (/\ Done(r)
         /\ input[r].body.enc = "utf8"
         /\ SecretTruthy(webhookSecret)
         /\ input[r].sig.k = "hex"
         /\ input[r].sig.d # HmacSha256Hex(webhookSecret.s, input[r].body))
        => /\ response[r] = Forbidden403
           /\ ~webhook_data[r].ok
           /\ NotNotified(r)

\* C2: a body that is not valid JSON, bytes that are not UTF-8 included, ends
\* in 400 "Invalid JSON payload" without notification, and in nothing else.
C2_NotJsonGives400 ==
    \A r \in Reqs :
        (Done(r) /\ ~ValidJson(r))
        => (response[r] = BadJson400 /\ NotNotified(r))

\* The JSON value has exactly the declared primitive type.
IsJsonInt(v) == v.t = "int"
IsJsonStr(v) == v.t = "str"
IsJsonOptStr(v) == v.t \in {"absent", "null", "str"}

\* The body has the WebhookEnvelope/InvoiceRecord shape of the data model:
\* required fields present with the declared JSON types, optional fields
\* absent, null or strings.
MatchesShape(b) ==
    /\ b.top = "obj"
    /\ IsJsonInt(b.update_id)
    /\ IsJsonStr(b.update_type)
    /\ IsJsonStr(b.request_date)
    /\ b.payload.t = "obj"
    /\ IsJsonInt(b.invoice_id)
    /\ IsJsonStr(b.status)
    /\ \A v \in {b.amount, b.asset, b.fee, b.fiat_amount, b.fiat_currency,
                 b.description, b.inv_payload} : IsJsonOptStr(v)

IsDigitString(v) == v.t = "str" /\ v.s # <<>> /\ \A i \in 1..Len(v.s) : v.s[i] \in Digits

\* The body differs from the shape otherwise than by integer fields written
\* as strings of decimal digits.
ShapeViolation(b) ==
    ~MatchesShape([b EXCEPT
        !.update_id = IF IsDigitString(@) THEN JInt(0) ELSE @,
        !.invoice_id = IF IsDigitString(@) THEN JInt(0) ELSE @])

StructureRejected(r) ==
    /\ response[r].code = 400
    /\ response[r].detail = "Invalid payload structure: "
    /\ response[r] # BadJson400
    /\ NotNotified(r)

RecipientAbsent(cp) ==
    \/ ~Truthy(cp)
    \/ ~Contains(cp.s, S_marker)
    \/ ~PyInt(SplitLast(cp.s, S_marker)).ok

\* C4: a parsed webhook whose recipient extraction yields absent is answered
\* 200 with the soft-error body, and the Notifier is not invoked.
C4_NoRecipientSoftError ==
    \A r \in Reqs :
        (Done(r) /\ webhook_data[r].ok /\ RecipientAbsent(webhook_data[r].custom_payload))
        => (response[r] = SoftError200 /\ NotNotified(r))

C4_Witness ==
    \E r \in Reqs :
        /\ Done(r)
        /\ webhook_data[r].ok
        /\ Truthy(webhook_data[r].custom_payload)
        /\ Contains(webhook_data[r].custom_payload.s, S_marker)
        /\ RecipientAbsent(webhook_data[r].custom_payload)
        /\ response[r] = SoftError200

\* C5: a parsed webhook with a recipient is answered 200 ok whatever the
\* dispatch does, and a non-2xx reply, a timeout or a network failure makes
\* the Notifier return false.
C5_DispatchOutcomeIgnored ==
    \A r \in Reqs :
        (Done(r) /\ webhook_data[r].ok /\ ~RecipientAbsent(webhook_data[r].custom_payload))
        => /\ response[r] = Ok200
           /\ outcome[r] # "2xx" => sent[r] = "False"

\* C6: when the text after the last marker parses as the integer n, the
\* notification goes to chat_id n and the answer is the ok body; no parsed
\* integer is treated as absent.
C6_ParsedIntegerIsRecipient ==
    \A r \in Reqs :
        (Done(r) /\ webhook_data[r].ok /\ ~RecipientAbsent(webhook_data[r].custom_payload))
        => /\ response[r] = Ok200
           /\ attempts[r] = 1
           /\ posted[r].chat_id =
                  PyInt(SplitLast(webhook_data[r].custom_payload.s, S_marker)).v

\* C7: at most one send-message call per request, none for a request that
\* ends in 400, 403 or the soft-error 200.
C7_AtMostOneAttempt ==
    \A r \in Reqs :
        /\ attempts[r] <= 1
        /\ (Done(r) /\ (response[r].code \in {400, 403} \/ response[r] = SoftError200))
           => attempts[r] = 0

C7_Witness ==
    \E r \in Reqs :
        /\ Done(r)
        /\ attempts[r] = 1
        /\ outcome[r] = "timeout"
        /\ sent[r] = "False"

\* C8: verify returns true when no secret is configured or no header is
\* present, otherwise true exactly when the header is the hex digest of the
\* raw bytes under the secret, and never raises.
C8_VerifyContract ==
    /\ verifyCall.phase # "raised"
    /\ verifyCall.phase = "returned" =>
           verifyCall.result =
               (\/ ~SecretTruthy(webhookSecret)
                \/ ~HeaderTruthy(verifyCall.header)
                \/ /\ verifyCall.header.k = "hex"
                   /\ verifyCall.header.d =
                          HmacSha256Hex(webhookSecret.s, verifyCall.body))

HasFragment(t, kind) == \E i \in 1..Len(t) : t[i].k = kind

Formatted(r) == pc[r] \in {"send", "posting", "respond", "done"} /\ webhook_data[r].ok
                    /\ notification_text[r] # <<>>

\* C9: the status of the body is compared as it is: "paid" gives the success
\* message, with the amount and asset exactly when both are non-empty;
\* "expired" gives the expiry message without amount; any other status gives
\* the generic message with the status upper-cased.
C9_TextByStatus ==
    \A r \in Reqs :
        Formatted(r) =>
            LET b  == input[r].body
                t  == notification_text[r]
                id == webhook_data[r].invoice_id
            IN  /\ b.status.s = S_paid =>
                    /\ t[1].lit \in {PaidText(id)[1].lit, PaidAmountText(id, <<>>, <<>>)[1].lit}
                    /\ (Truthy(b.amount) /\ Truthy(b.asset)) <=>
                           (/\ HasFragment(t, "amount")
                            /\ HasFragment(t, "asset")
                            /\ t = PaidAmountText(id, b.amount.s, b.asset.s))
                    /\ ~(Truthy(b.amount) /\ Truthy(b.asset)) =>
                           (~HasFragment(t, "amount") /\ ~HasFragment(t, "asset"))
                /\ b.status.s = S_expired =>
                    (t = ExpiredText(id) /\ ~HasFragment(t, "amount"))
                /\ b.status.s \notin {S_paid, S_expired} =>
                    (/\ t = GenericText(id, b.status.s)
                     /\ \E i \in 1..Len(t) : t[i] = FragStatus(Upper(b.status.s)))

C9_Witness ==
    \E r \in Reqs :
        /\ Formatted(r)
        /\ input[r].body.status.s = S_PAID
        /\ Truthy(input[r].body.amount)
        /\ Truthy(input[r].body.asset)
        /\ HasFragment(notification_text[r], "status")

\* C10: while one request is blocked in its outbound call, every other request
\* in flight can still be received, processed and answered.
C10_SlowDispatchDelaysOnlyItsRequest ==
    \A r \in Reqs, q \in Reqs :
        (r # q /\ pc[r] = "posting" /\ pc[q] \notin {"idle", "done"})
        => CanRun(q)

====
